---------------------------- MODULE Spec2Model ----------------------------
(***************************************************************************)
(* Room / session coordinator of backend/app.py (Flask-SocketIO).          *)
(*                                                                         *)
(* The server is built with async_mode="threading" (app.py:16-22): every   *)
(* inbound event is handled on its own thread and the handlers share the   *)
(* module-level dict `rooms` without any lock.  Each handler is therefore  *)
(* modelled as a sequence of steps, one per access to shared state, and    *)
(* the steps of different handlers interleave (Spec).  SeqSpec is the same *)
(* program with the handlers run one at a time, start to finish.           *)
(*                                                                         *)
(* Python dicts that are iterated or listed (`rooms`, room["users"]) are   *)
(* sequences of key/value pairs in insertion order; room["mic_slots"] and  *)
(* room["user_slots"] are functions whose DOMAIN is the set of keys.  Room *)
(* dicts are heap objects: `rooms` and the handlers' local variables hold  *)
(* references to them, so a handler can keep working on a room object that *)
(* has been deleted from `rooms` in the meantime.                          *)
(*                                                                         *)
(* Not modelled: the HTTP routes, the connect handler (it only answers     *)
(* "connected" and touches no room), created_at/updated_at/joined_at       *)
(* (never read; update_room_timestamp is never called), payloads with      *)
(* missing fields.                                                         *)
(***************************************************************************)
EXTENDS Integers, Sequences, FiniteSets, TLC

\* ------------------------------------------------------------------ bounds

\* Number of events (join_room, send_message, join_mic, leave_mic,
\* disconnect) the clients send in one run.
MaxEvents == 3

\* ------------------------------------------------------------------ inputs

\* Connection identities (request.sid).  Each connection has at most one
\* handler in flight.
Sids == {"s1", "s2"}

\* The display name a connection's client sends with join_room and
\* send_message.  join_mic and leave_mic are sent with any name.
NameOf(s) == IF s = "s1" THEN "alice" ELSE "bob"

\* JSON values of a payload field: a string or a number.
JStr(s) == [t |-> "str", v |-> s]
JInt(n) == [t |-> "int", v |-> n]

RoomIdInputs == {JStr("r1"), JInt(7)}
SlotInputs == {JInt(1), JStr("")}
Names == {"alice", "bob"}
TextInputs == {<< >>, <<" ", "\t">>, <<" ", "h", "i", "\n">>}

\* ------------------------------------------------------- python built-ins

Digit == <<"0", "1", "2", "3", "4", "5", "6", "7", "8", "9">>

RECURSIVE IntStr(_)
IntStr(n) == IF n < 10 THEN Digit[n + 1]
             ELSE IntStr(n \div 10) \o Digit[(n % 10) + 1]

\* str(x): a string is returned as it is, a number in decimal.
PyStr(x) == IF x.t = "int" THEN IntStr(x.v) ELSE x.v

Whitespace == {" ", "\t", "\n"}

RECURSIVE LStrip(_)
LStrip(t) == IF t # << >> /\ Head(t) \in Whitespace THEN LStrip(Tail(t)) ELSE t

RECURSIVE RStrip(_)
RStrip(t) == IF t # << >> /\ t[Len(t)] \in Whitespace
             THEN RStrip(SubSeq(t, 1, Len(t) - 1)) ELSE t

\* Mutant of Strip: the text is used as it is sent.
StripOmitted(t) == t

\* text.strip(): a text is a sequence of characters.
Strip(t) == RStrip(LStrip(t))

\* Insertion-ordered dict: a sequence of [k, v] pairs with distinct keys.
DictKeys(d) == {d[i].k : i \in 1..Len(d)}
DictHas(d, k) == k \in DictKeys(d)
DictGet(d, k) == d[CHOOSE i \in 1..Len(d) : d[i].k = k].v
DictSet(d, k, v) ==
    IF DictHas(d, k)
    THEN [i \in 1..Len(d) |-> IF d[i].k = k THEN [k |-> k, v |-> v] ELSE d[i]]
    ELSE Append(d, [k |-> k, v |-> v])
DictDel(d, k) == SelectSeq(d, LAMBDA e : e.k # k)
DictValues(d) == [i \in 1..Len(d) |-> d[i].v]

\* Unordered dict: a function on its keys.
FnSet(f, k, v) == [x \in DOMAIN f \cup {k} |-> IF x = k THEN v ELSE f[x]]
FnDel(f, k) == [x \in DOMAIN f \ {k} |-> f[x]]
EmptyFn == [x \in {} |-> x]

\* ------------------------------------------------------------------- state

RoomIds == {PyStr(x) : x \in RoomIdInputs}
Slots == {PyStr(x) : x \in SlotInputs}

\* Room objects: `rooms` refers to at most one per room id, and a handler
\* may still hold one that `rooms` has lost.
ObjIds == 1..(Cardinality(RoomIds) + Cardinality(Sids))
NoObj == 0

VARIABLES
    conn,      \* conn[s]: the transport of connection s is "open" or "closed"
    rooms,     \* the dict `rooms`: room id -> reference to a room object
    heap,      \* heap[o]: the room dict behind reference o
    groups,    \* Socket.IO broadcast groups: groups[room_id] is a set of sids
    pc,        \* pc[s]: where the handler running for connection s stands
    loc,       \* loc[s]: the local variables of that handler
    out,       \* the events emitted by the last step
    recv,      \* recv[s]: timestamps of the new_message events s received
    now,       \* the clock behind datetime.now()
    nEvents    \* events sent so far

vars == <<conn, rooms, heap, groups, pc, loc, out, recv, now, nEvents>>

\* The dict literal of get_or_create_room.
EmptyRoom == [users |-> << >>, messages |-> << >>,
              mic_slots |-> EmptyFn, user_slots |-> EmptyFn]

Nil == "nil"
NoMsg == [user |-> Nil, text |-> << >>, timestamp |-> 0]

\* The frame of a handler that is not running.
NoFrame == [ev |-> "none", room_id |-> Nil, username |-> Nil, slot |-> Nil,
            text |-> << >>, room |-> NoObj, snap |-> << >>, msg |-> NoMsg]

Init ==
    /\ conn = [s \in Sids |-> "open"]
    /\ rooms = << >>
    /\ heap = [o \in ObjIds |-> EmptyRoom]
    /\ groups = [r \in RoomIds |-> {}]
    /\ pc = [s \in Sids |-> "idle"]
    /\ loc = [s \in Sids |-> NoFrame]
    /\ out = {}
    /\ recv = [s \in Sids |-> << >>]
    /\ now = 0
    /\ nEvents = 0

\* ----------------------------------------------------------------- helpers

\* No handler is running for the connection ("idle"), or its handler stands
\* at its return ("done") or has died of an uncaught exception ("fault").
Returned == {"idle", "done", "fault"}

\* Objects referenced by `rooms` or by a frame.
Referenced(rs, lc) ==
    {rs[i].v : i \in 1..Len(rs)}
        \cup {lc[s].room : s \in Sids}
        \cup UNION {{lc[s].snap[i].v : i \in 1..Len(lc[s].snap)} : s \in Sids}

\* Reference counting: an object nobody references is freed.
Collect(h, rs, lc) ==
    [o \in ObjIds |-> IF o \in Referenced(rs, lc) THEN h[o] ELSE EmptyRoom]

\* A fresh object for a dict literal.
NewObj == CHOOSE o \in ObjIds : o \notin Referenced(rooms, loc)

\* emit(..., room=room_id): every connection in the broadcast group whose
\* transport is open; skip is the sid left out by include_self=False.
Recipients(room_id, skip) ==
    {t \in groups[room_id] : conn[t] = "open"} \ skip

Emission(ev, to, data) == [ev |-> ev, to |-> to, data |-> data]

\* Delivery of a new_message event.
Deliver(to, msg) ==
    [t \in Sids |-> IF t \in to THEN Append(recv[t], msg.timestamp) ELSE recv[t]]

CanBegin(s) ==
    /\ conn[s] = "open"
    /\ pc[s] = "idle"
    /\ nEvents < MaxEvents

\* One step of the handler of connection s: it moves to `label` with the
\* frame `frame`, and leaves `rooms`, the heap, the broadcast groups, the
\* emitted events, the deliveries and the clock as given.
Commit(s, label, frame, rs, h, gr, em, rv, clock) ==
    /\ pc' = [pc EXCEPT ![s] = label]
    /\ loc' = [loc EXCEPT ![s] = frame]
    /\ rooms' = rs
    /\ heap' = Collect(h, rs, [loc EXCEPT ![s] = frame])
    /\ groups' = gr
    /\ out' = em
    /\ recv' = rv
    /\ now' = clock

\* A step that touches nothing but the handler's own frame.
Local(s, label, frame) ==
    Commit(s, label, frame, rooms, heap, groups, {}, recv, now)

\* A step that writes the room object o.
Write(s, label, frame, o, room) ==
    Commit(s, label, frame, rooms, [heap EXCEPT ![o] = room], groups, {},
           recv, now)

\* python-socketio drops a disconnected sid from every broadcast group once
\* its disconnect handler has returned.
LeaveAll(s) == [r \in RoomIds |-> groups[r] \ {s}]

SystemMsg(text, clock) == [user |-> "System", text |-> text, timestamp |-> clock]

\* ---------------------------------------------------- disconnect (93-110)

\* The transport is closed, then the handler starts: list(rooms.items()).
Disconnect(s) ==
    /\ CanBegin(s)
    /\ conn' = [conn EXCEPT ![s] = "closed"]
    /\ nEvents' = nEvents + 1
    /\ Local(s, "d_scan", [NoFrame EXCEPT !.ev = "disconnect", !.snap = rooms])

\* The for loop of lines 95-110 up to its first hit: the test of line 96 on
\* each room of the snapshot in turn and, where it holds, lines 97-98.  Only
\* handlers of s write room["users"][s], so the tests, the read and the del
\* are one step.  After the hit the loop ends (break, line 110).
DScan(s) ==
    /\ pc[s] = "d_scan"
    /\ UNCHANGED <<conn, nEvents>>
    /\ LET f == loc[s]
           hits == {i \in 1..Len(f.snap) : DictHas(heap[f.snap[i].v].users, s)}
       IN IF hits = {}
          THEN Commit(s, "done", [f EXCEPT !.snap = << >>], rooms, heap,
                      LeaveAll(s), {}, recv, now)
          ELSE LET e == f.snap[CHOOSE i \in hits : \A j \in hits : i <= j]
                   room == heap[e.v]
               IN Write(s, "d_append",
                        [f EXCEPT !.room_id = e.k, !.room = e.v, !.snap = << >>,
                                  !.username = DictGet(room.users, s).name],
                        e.v, [room EXCEPT !.users = DictDel(@, s)])

\* Lines 100-105.
DAppend(s) ==
    /\ pc[s] = "d_append"
    /\ UNCHANGED <<conn, nEvents>>
    /\ LET f == loc[s]
           msg == SystemMsg(<<f.username, " left the room">>, now + 1)
       IN Commit(s, "d_emit", [f EXCEPT !.msg = msg], rooms,
                 [heap EXCEPT ![f.room].messages = Append(@, msg)],
                 groups, {}, recv, now + 1)

\* Line 106.
DEmit(s) ==
    /\ pc[s] = "d_emit"
    /\ UNCHANGED <<conn, nEvents>>
    /\ LET f == loc[s]
           to == Recipients(f.room_id, {})
       IN Commit(s, "d_empty", f, rooms, heap, groups,
                 {Emission("new_message", to, f.msg)}, Deliver(to, f.msg), now)

\* Mutant of DEmpty: the room is deleted whether or not a member remains.
DEmptyAlwaysDeletes(s) ==
    /\ pc[s] = "d_empty"
    /\ UNCHANGED <<conn, nEvents>>
    /\ Local(s, "d_del", loc[s])

\* Line 108.
DEmpty(s) ==
    /\ pc[s] = "d_empty"
    /\ UNCHANGED <<conn, nEvents>>
    /\ IF heap[loc[s].room].users = << >>
       THEN Local(s, "d_del", loc[s])
       ELSE Commit(s, "done", loc[s], rooms, heap, LeaveAll(s), {}, recv, now)

\* Line 109: del rooms[room_id] raises KeyError when the key is gone.
DDel(s) ==
    /\ pc[s] = "d_del"
    /\ UNCHANGED <<conn, nEvents>>
    /\ IF DictHas(rooms, loc[s].room_id)
       THEN Commit(s, "done", loc[s], DictDel(rooms, loc[s].room_id), heap,
                   LeaveAll(s), {}, recv, now)
       ELSE Local(s, "fault", loc[s])

\* ----------------------------------------------------- join_room (112-139)

\* Lines 114-115 and the test of get_or_create_room (34-35).
Join(s, data) ==
    /\ CanBegin(s)
    /\ UNCHANGED conn
    /\ nEvents' = nEvents + 1
    /\ LET rid == PyStr(data.roomId)
           f == [NoFrame EXCEPT !.ev = "join_room", !.room_id = rid,
                                !.username = data.userName]
       IN Local(s, IF DictHas(rooms, rid) THEN "j_get" ELSE "j_create", f)

\* Lines 36-43: rooms[room_id] = {...}.
JCreate(s) ==
    /\ pc[s] = "j_create"
    /\ UNCHANGED <<conn, nEvents>>
    /\ Commit(s, "j_get", loc[s], DictSet(rooms, loc[s].room_id, NewObj),
              [heap EXCEPT ![NewObj] = EmptyRoom], groups, {}, recv, now)

\* Line 44: return rooms[room_id] raises KeyError when the key is gone.
JGet(s) ==
    /\ pc[s] = "j_get"
    /\ UNCHANGED <<conn, nEvents>>
    /\ IF DictHas(rooms, loc[s].room_id)
       THEN Local(s, "j_insert",
                  [loc[s] EXCEPT !.room = DictGet(rooms, loc[s].room_id)])
       ELSE Local(s, "fault", loc[s])

\* Lines 118-121.
JInsert(s) ==
    /\ pc[s] = "j_insert"
    /\ UNCHANGED <<conn, nEvents>>
    /\ LET f == loc[s]
           room == heap[f.room]
       IN Write(s, "j_group", f, f.room,
                [room EXCEPT !.users = DictSet(@, s, [name |-> f.username])])

\* Line 123: join_room(room_id).
JGroup(s) ==
    /\ pc[s] = "j_group"
    /\ UNCHANGED <<conn, nEvents>>
    /\ Commit(s, "j_data", loc[s], rooms, heap,
              [groups EXCEPT ![loc[s].room_id] = @ \cup {s}], {}, recv, now)

\* Lines 125-130.
JData(s) ==
    /\ pc[s] = "j_data"
    /\ UNCHANGED <<conn, nEvents>>
    /\ LET f == loc[s]
           room == heap[f.room]
           data == [users |-> DictValues(room.users), micSlots |-> room.mic_slots,
                    roomId |-> f.room_id, yourName |-> f.username]
       IN Commit(s, "j_append", f, rooms, heap, groups,
                 {Emission("room_data", {s}, data)}, recv, now)

\* Lines 132-138.
JAppend(s) ==
    /\ pc[s] = "j_append"
    /\ UNCHANGED <<conn, nEvents>>
    /\ LET f == loc[s]
           msg == SystemMsg(<<f.username, " joined the room">>, now + 1)
       IN Commit(s, "j_emit", [f EXCEPT !.msg = msg], rooms,
                 [heap EXCEPT ![f.room].messages = Append(@, msg)],
                 groups, {}, recv, now + 1)

\* Mutant of JEmit: include_self=False is left out.
JEmitIncludesSelf(s) ==
    /\ pc[s] = "j_emit"
    /\ UNCHANGED <<conn, nEvents>>
    /\ LET f == loc[s]
           to == Recipients(f.room_id, {})
       IN Commit(s, "done", f, rooms, heap, groups,
                 {Emission("new_message", to, f.msg)}, Deliver(to, f.msg), now)

\* Line 139: include_self=False.
JEmit(s) ==
    /\ pc[s] = "j_emit"
    /\ UNCHANGED <<conn, nEvents>>
    /\ LET f == loc[s]
           to == Recipients(f.room_id, {s})
       IN Commit(s, "done", f, rooms, heap, groups,
                 {Emission("new_message", to, f.msg)}, Deliver(to, f.msg), now)

\* -------------------------------------------------- send_message (141-157)

\* Lines 143-148.
Message(s, data) ==
    /\ CanBegin(s)
    /\ UNCHANGED conn
    /\ nEvents' = nEvents + 1
    /\ LET rid == PyStr(data.roomId)
           text == Strip(data.text)
           f == [NoFrame EXCEPT !.ev = "send_message", !.room_id = rid,
                                !.username = data.userName, !.text = text]
       IN Local(s, IF text = << >> \/ ~DictHas(rooms, rid) THEN "done"
                   ELSE "m_append", f)

\* Mutant of MAppend: the new message replaces the log.
MAppendReplacesLog(s) ==
    /\ pc[s] = "m_append"
    /\ UNCHANGED <<conn, nEvents>>
    /\ LET f == loc[s]
           msg == [user |-> f.username, text |-> f.text, timestamp |-> now + 1]
       IN IF DictHas(rooms, f.room_id)
          THEN Commit(s, "m_emit", [f EXCEPT !.msg = msg], rooms,
                      [heap EXCEPT ![DictGet(rooms, f.room_id)].messages = <<msg>>],
                      groups, {}, recv, now + 1)
          ELSE Local(s, "fault", f)

\* Lines 150-156: rooms[room_id] raises KeyError when the key is gone.
MAppend(s) ==
    /\ pc[s] = "m_append"
    /\ UNCHANGED <<conn, nEvents>>
    /\ LET f == loc[s]
           msg == [user |-> f.username, text |-> f.text, timestamp |-> now + 1]
       IN IF DictHas(rooms, f.room_id)
          THEN Commit(s, "m_emit", [f EXCEPT !.msg = msg], rooms,
                      [heap EXCEPT ![DictGet(rooms, f.room_id)].messages =
                                       Append(@, msg)],
                      groups, {}, recv, now + 1)
          ELSE Local(s, "fault", f)

\* Line 157.
MEmit(s) ==
    /\ pc[s] = "m_emit"
    /\ UNCHANGED <<conn, nEvents>>
    /\ LET f == loc[s]
           to == Recipients(f.room_id, {})
       IN Commit(s, "done", f, rooms, heap, groups,
                 {Emission("new_message", to, f.msg)}, Deliver(to, f.msg), now)

\* ------------------------------------------------------ join_mic (159-176)

\* Mutant of JoinMic: a missing room is reported to the sender.
JoinMicReportsMissingRoom(s, data) ==
    /\ CanBegin(s)
    /\ UNCHANGED conn
    /\ nEvents' = nEvents + 1
    /\ LET rid == PyStr(data.roomId)
           f == [NoFrame EXCEPT !.ev = "join_mic", !.room_id = rid,
                                !.slot = PyStr(data.slot),
                                !.username = data.userName]
       IN IF DictHas(rooms, rid)
          THEN Local(s, "jm_check", [f EXCEPT !.room = DictGet(rooms, rid)])
          ELSE Commit(s, "done", f, rooms, heap, groups,
                      {Emission("mic_error", {s}, [message |-> "Room not found"])},
                      recv, now)

\* Lines 161-167.
JoinMic(s, data) ==
    /\ CanBegin(s)
    /\ UNCHANGED conn
    /\ nEvents' = nEvents + 1
    /\ LET rid == PyStr(data.roomId)
           f == [NoFrame EXCEPT !.ev = "join_mic", !.room_id = rid,
                                !.slot = PyStr(data.slot),
                                !.username = data.userName]
       IN IF DictHas(rooms, rid)
          THEN Local(s, "jm_check", [f EXCEPT !.room = DictGet(rooms, rid)])
          ELSE Local(s, "done", f)

\* Mutant of JmCheck: the slot is assigned without looking at mic_slots.
JmCheckOmitted(s) ==
    /\ pc[s] = "jm_check"
    /\ UNCHANGED <<conn, nEvents>>
    /\ Local(s, "jm_slot", loc[s])

\* Lines 169-171.
JmCheck(s) ==
    /\ pc[s] = "jm_check"
    /\ UNCHANGED <<conn, nEvents>>
    /\ IF loc[s].slot \in DOMAIN heap[loc[s].room].mic_slots
       THEN Commit(s, "done", loc[s], rooms, heap, groups,
                   {Emission("mic_error", {s}, [message |-> "Slot already taken"])},
                   recv, now)
       ELSE Local(s, "jm_slot", loc[s])

\* Line 173.
JmSlot(s) ==
    /\ pc[s] = "jm_slot"
    /\ UNCHANGED <<conn, nEvents>>
    /\ LET f == loc[s]
           room == heap[f.room]
       IN Write(s, "jm_user", f, f.room,
                [room EXCEPT !.mic_slots = FnSet(@, f.slot, f.username)])

\* Line 174.
JmUser(s) ==
    /\ pc[s] = "jm_user"
    /\ UNCHANGED <<conn, nEvents>>
    /\ LET f == loc[s]
           room == heap[f.room]
       IN Write(s, "jm_emit", f, f.room,
                [room EXCEPT !.user_slots = FnSet(@, f.username, f.slot)])

\* Line 176.
JmEmit(s) ==
    /\ pc[s] = "jm_emit"
    /\ UNCHANGED <<conn, nEvents>>
    /\ Commit(s, "done", loc[s], rooms, heap, groups,
              {Emission("mic_update", Recipients(loc[s].room_id, {}),
                        heap[loc[s].room].mic_slots)},
              recv, now)

\* ----------------------------------------------------- leave_mic (178-191)

\* Lines 180-185.
LeaveMic(s, data) ==
    /\ CanBegin(s)
    /\ UNCHANGED conn
    /\ nEvents' = nEvents + 1
    /\ LET rid == PyStr(data.roomId)
           f == [NoFrame EXCEPT !.ev = "leave_mic", !.room_id = rid,
                                !.username = data.userName]
       IN IF DictHas(rooms, rid)
          THEN Local(s, "lm_get", [f EXCEPT !.room = DictGet(rooms, rid)])
          ELSE Local(s, "done", f)

\* Lines 187-188: user_slots.get(username) is None without the key, and
\* `if slot:` is false for None and for the empty string.
LmGet(s) ==
    /\ pc[s] = "lm_get"
    /\ UNCHANGED <<conn, nEvents>>
    /\ LET f == loc[s]
           user_slots == heap[f.room].user_slots
       IN IF f.username \in DOMAIN user_slots /\ user_slots[f.username] # ""
          THEN Local(s, "lm_slot", [f EXCEPT !.slot = user_slots[f.username]])
          ELSE Local(s, "done", f)

\* Line 189: del raises KeyError when the key is gone.
LmSlot(s) ==
    /\ pc[s] = "lm_slot"
    /\ UNCHANGED <<conn, nEvents>>
    /\ LET f == loc[s]
           room == heap[f.room]
           slot == PyStr(JStr(f.slot))
       IN IF slot \in DOMAIN room.mic_slots
          THEN Write(s, "lm_user", f, f.room,
                     [room EXCEPT !.mic_slots = FnDel(@, slot)])
          ELSE Local(s, "fault", f)

\* Mutant of LmUser: the user_slots entry is kept.
LmUserKeepsEntry(s) ==
    /\ pc[s] = "lm_user"
    /\ UNCHANGED <<conn, nEvents>>
    /\ Local(s, "lm_emit", loc[s])

\* Line 190: del raises KeyError when the key is gone.
LmUser(s) ==
    /\ pc[s] = "lm_user"
    /\ UNCHANGED <<conn, nEvents>>
    /\ LET f == loc[s]
           room == heap[f.room]
       IN IF f.username \in DOMAIN room.user_slots
          THEN Write(s, "lm_emit", f, f.room,
                     [room EXCEPT !.user_slots = FnDel(@, f.username)])
          ELSE Local(s, "fault", f)

\* Line 191.
LmEmit(s) ==
    /\ pc[s] = "lm_emit"
    /\ UNCHANGED <<conn, nEvents>>
    /\ Commit(s, "done", loc[s], rooms, heap, groups,
              {Emission("mic_update", Recipients(loc[s].room_id, {}),
                        heap[loc[s].room].mic_slots)},
              recv, now)

\* The handler's thread ends: its frame, and the references in it, go.
Return(s) ==
    /\ pc[s] \in {"done", "fault"}
    /\ UNCHANGED <<conn, nEvents>>
    /\ Local(s, "idle", NoFrame)

\* ---------------------------------------------------------- specifications

JoinData(s) == [roomId : RoomIdInputs, userName : {NameOf(s)}]
MessageData(s) == [roomId : RoomIdInputs, text : TextInputs, userName : {NameOf(s)}]
JoinMicData == [roomId : RoomIdInputs, slot : SlotInputs, userName : Names]
LeaveMicData == [roomId : RoomIdInputs, userName : Names]

\* A step of connection s: an event arrives, or its handler moves on.
Step(s) ==
    \/ Disconnect(s)
    \/ DScan(s)
    \/ DAppend(s)
    \/ DEmit(s)
    \/ DEmpty(s)
    \/ DDel(s)
    \/ \E data \in JoinData(s) : Join(s, data)
    \/ JCreate(s)
    \/ JGet(s)
    \/ JInsert(s)
    \/ JGroup(s)
    \/ JData(s)
    \/ JAppend(s)
    \/ JEmit(s)
    \/ \E data \in MessageData(s) : Message(s, data)
    \/ MAppend(s)
    \/ MEmit(s)
    \/ \E data \in JoinMicData : JoinMic(s, data)
    \/ JmCheck(s)
    \/ JmSlot(s)
    \/ JmUser(s)
    \/ JmEmit(s)
    \/ \E data \in LeaveMicData : LeaveMic(s, data)
    \/ LmGet(s)
    \/ LmSlot(s)
    \/ LmUser(s)
    \/ LmEmit(s)
    \/ Return(s)

\* Handlers run on threads: their steps interleave.
Next == \E s \in Sids : Step(s)

Spec == Init /\ [][Next]_vars

\* No handler is between its first and its last step.
Quiet(S) == \A t \in S : pc[t] \in Returned

\* One step of connection s's handler while no other handler is running.
SeqStep(s) ==
    \/ Quiet(Sids \ {s}) /\ Disconnect(s)
    \/ Quiet(Sids \ {s}) /\ DScan(s)
    \/ Quiet(Sids \ {s}) /\ DAppend(s)
    \/ Quiet(Sids \ {s}) /\ DEmit(s)
    \/ Quiet(Sids \ {s}) /\ DEmpty(s)
    \/ Quiet(Sids \ {s}) /\ DDel(s)
    \/ Quiet(Sids \ {s}) /\ (\E data \in JoinData(s) : Join(s, data))
    \/ Quiet(Sids \ {s}) /\ JCreate(s)
    \/ Quiet(Sids \ {s}) /\ JGet(s)
    \/ Quiet(Sids \ {s}) /\ JInsert(s)
    \/ Quiet(Sids \ {s}) /\ JGroup(s)
    \/ Quiet(Sids \ {s}) /\ JData(s)
    \/ Quiet(Sids \ {s}) /\ JAppend(s)
    \/ Quiet(Sids \ {s}) /\ JEmit(s)
    \/ Quiet(Sids \ {s}) /\ (\E data \in MessageData(s) : Message(s, data))
    \/ Quiet(Sids \ {s}) /\ MAppend(s)
    \/ Quiet(Sids \ {s}) /\ MEmit(s)
    \/ Quiet(Sids \ {s}) /\ (\E data \in JoinMicData : JoinMic(s, data))
    \/ Quiet(Sids \ {s}) /\ JmCheck(s)
    \/ Quiet(Sids \ {s}) /\ JmSlot(s)
    \/ Quiet(Sids \ {s}) /\ JmUser(s)
    \/ Quiet(Sids \ {s}) /\ JmEmit(s)
    \/ Quiet(Sids \ {s}) /\ (\E data \in LeaveMicData : LeaveMic(s, data))
    \/ Quiet(Sids \ {s}) /\ LmGet(s)
    \/ Quiet(Sids \ {s}) /\ LmSlot(s)
    \/ Quiet(Sids \ {s}) /\ LmUser(s)
    \/ Quiet(Sids \ {s}) /\ LmEmit(s)
    \/ Quiet(Sids \ {s}) /\ Return(s)

\* The handlers run one at a time, each from its first step to its last.
SeqNext == \E s \in Sids : SeqStep(s)

SeqSpec == Init /\ [][SeqNext]_vars

\* The disconnect handler is invoked once more for a connection whose
\* transport is already closed (lines 93-95); a connection gets at most one
\* such repeat, after which it is "gone".
DisconnectAgain(s) ==
    /\ conn[s] = "closed"
    /\ pc[s] = "idle"
    /\ conn' = [conn EXCEPT ![s] = "gone"]
    /\ UNCHANGED nEvents
    /\ Local(s, "d_scan", [NoFrame EXCEPT !.ev = "disconnect", !.snap = rooms])

\* The handlers run one at a time, and a disconnect may be repeated.
RedoNext ==
    \E s \in Sids :
        \/ SeqStep(s)
        \/ Quiet(Sids \ {s}) /\ DisconnectAgain(s)

RedoSpec == Init /\ [][RedoNext]_vars

\* ------------------------------------------------------------------ views

\* The room registered under room id r.
RoomOf(r) == heap[DictGet(rooms, r)]

\* The room objects that still exist.
Live == Referenced(rooms, loc) \ {NoObj}

Registered(o) == \E i \in 1..Len(rooms) : rooms[i].v = o

\* No handler is running, and none has died.
Settled == \A s \in Sids : pc[s] \in {"idle", "done"}

\* The connections with a member record in `room` whose transport is open.
OpenMembers(room) == {t \in DictKeys(room.users) : conn[t] = "open"}

Pos(seq, x) == CHOOSE k \in 1..Len(seq) : seq[k] = x
Range(seq) == {seq[k] : k \in 1..Len(seq)}

\* A text is empty or holds whitespace only.
Blank(text) == \A i \in 1..Len(text) : text[i] \in Whitespace

\* This step is the first step of a handler of s for the event ev; the
\* handler's frame, loc'[s], holds the payload.
Begins(s, ev) == pc[s] = "idle" /\ pc'[s] # "idle" /\ loc'[s].ev = ev

\* ------------------------------------------------------------------ claims

\* The handler of s found its slot free (line 169) and assigns it.
Claiming(s) ==
    /\ loc[s].ev = "join_mic"
    /\ pc[s] \in {"jm_slot", "jm_user", "jm_emit"}

\* C1: of two join_mic handlers that run concurrently for the same room and
\* slot with different usernames, at most one finds the slot free and
\* assigns it; the slot is never assigned by both.
C1_OneClaimWins ==
    \A s, t \in Sids :
        (/\ s # t
         /\ Claiming(s) /\ Claiming(t)
         /\ loc[s].room = loc[t].room
         /\ loc[s].slot = loc[t].slot
         /\ loc[s].username # loc[t].username)
        => FALSE

\* mic_slots and user_slots of a room are inverse to each other.
Inverse(room) ==
    /\ \A slot \in DOMAIN room.mic_slots :
           /\ room.mic_slots[slot] \in DOMAIN room.user_slots
           /\ room.user_slots[room.mic_slots[slot]] = slot
    /\ \A user \in DOMAIN room.user_slots :
           /\ room.user_slots[user] \in DOMAIN room.mic_slots
           /\ room.mic_slots[room.user_slots[user]] = user

\* C2: whenever every handler has completed, micSlots and userSlots of
\* every registered room are exact mutual inverses.
C2_SlotMapsInverse ==
    Settled => \A r \in DictKeys(rooms) : Inverse(RoomOf(r))

\* C3: once the join_room and disconnect handlers have settled, a room
\* object is registered if and only if it has at least one member: no
\* registered room is empty, and no member record sits in a room object that
\* `rooms` does not hold.
C3_RegisteredIffMembers ==
    Settled => \A o \in Live : Registered(o) <=> heap[o].users # << >>

\* C4: a connection that has received two messages of a room's log has
\* received them in the order of the log.
C4_BroadcastInLogOrder ==
    \A o \in Live : \A s \in Sids :
        LET log == heap[o].messages IN
        \A i, j \in 1..Len(log) :
            (/\ i < j
             /\ log[i].timestamp \in Range(recv[s])
             /\ log[j].timestamp \in Range(recv[s]))
            => Pos(recv[s], log[i].timestamp) < Pos(recv[s], log[j].timestamp)

\* C5: a send_message whose text is empty or whitespace-only returns at
\* once: no message log changes and nothing is emitted or delivered.
C5_BlankTextIgnored ==
    [][\A s \in Sids :
           (/\ Begins(s, "send_message")
            /\ \E data \in MessageData(s) : Blank(data.text) /\ Message(s, data))
           => /\ pc'[s] = "done"
              /\ heap' = heap
              /\ rooms' = rooms
              /\ out' = {}
              /\ recv' = recv]_vars

C5_Witness ==
    \E s \in Sids :
        /\ pc[s] = "done"
        /\ loc[s].ev = "send_message"
        /\ loc[s].text = << >>
        /\ DictHas(rooms, loc[s].room_id)
        /\ OpenMembers(RoomOf(loc[s].room_id)) # {}

\* C6: a join_mic that finds its slot in the room's mic_slots changes no
\* room, no registry entry and no broadcast group, emits mic_error to the
\* requesting connection only, emits no mic_update and returns.
C6_TakenSlotRejected ==
    [][\A s \in Sids :
           (/\ pc[s] = "jm_check"
            /\ loc[s].slot \in DOMAIN heap[loc[s].room].mic_slots
            /\ JmCheck(s))
           => /\ pc'[s] = "done"
              /\ heap' = heap
              /\ rooms' = rooms
              /\ groups' = groups
              /\ recv' = recv
              /\ \E e \in out' : out' = {e} /\ e.ev = "mic_error" /\ e.to = {s}]_vars

C6_Witness ==
    \E s \in Sids :
        /\ pc[s] = "done"
        /\ loc[s].ev = "join_mic"
        /\ loc[s].room # NoObj
        /\ loc[s].slot \in DOMAIN heap[loc[s].room].mic_slots
        /\ heap[loc[s].room].mic_slots[loc[s].slot] # loc[s].username
        /\ \E e \in out : e.ev = "mic_error" /\ e.to = {s}

\* C7: a send_message, join_mic or leave_mic that names a room which is not
\* in `rooms` returns at once: `rooms` and every room are unchanged (the
\* room is not created) and nothing is emitted to anyone.
C7_MissingRoomIgnored ==
    [][\A s \in Sids :
           (/\ \/ Begins(s, "send_message")
               \/ Begins(s, "join_mic")
               \/ Begins(s, "leave_mic")
            /\ ~DictHas(rooms, loc'[s].room_id))
           => /\ pc'[s] = "done"
              /\ rooms' = rooms
              /\ heap' = heap
              /\ groups' = groups
              /\ recv' = recv
              /\ out' = {}]_vars

C7_Witness ==
    \E s \in Sids :
        /\ pc[s] = "done"
        /\ loc[s].ev = "join_mic"
        /\ loc[s].room = NoObj
        /\ rooms # << >>
        /\ ~DictHas(rooms, loc[s].room_id)

\* The single event emitted by the last step is ev, sent to `to` with `data`.
Emitted(em, ev, to, data) == em = {Emission(ev, to, data)}

\* C8: join_room sends room_data to the joining connection only, with the
\* room's member list (the joiner in it), the room's mic_slots, the room id
\* and the joiner's name; it appends "<name> joined the room" to the room's
\* log and delivers it to every other member of the room, not to the joiner.
C8_JoinSnapshotAndNotice ==
    [][\A s \in Sids :
           LET f == loc[s]
               rid == f.room_id
           IN /\ (pc[s] = "j_data" /\ JData(s))
                 => /\ DictHas(rooms, rid)
                    /\ DictHas(RoomOf(rid).users, s)
                    /\ [name |-> f.username] \in Range(DictValues(RoomOf(rid).users))
                    /\ Emitted(out', "room_data", {s},
                               [users |-> DictValues(RoomOf(rid).users),
                                micSlots |-> RoomOf(rid).mic_slots,
                                roomId |-> rid, yourName |-> f.username])
              /\ (pc[s] = "j_append" /\ JAppend(s))
                 => /\ DictHas(rooms, rid)
                    /\ loc'[s].msg.user = "System"
                    /\ loc'[s].msg.text = <<f.username, " joined the room">>
                    /\ RoomOf(rid)'.messages =
                           Append(RoomOf(rid).messages, loc'[s].msg)
              /\ (pc[s] = "j_emit" /\ JEmit(s))
                 => /\ DictHas(rooms, rid)
                    /\ Emitted(out', "new_message",
                               OpenMembers(RoomOf(rid)) \ {s}, f.msg)
                    /\ \A t \in Sids :
                           recv'[t] = IF t \in OpenMembers(RoomOf(rid)) \ {s}
                                      THEN Append(recv[t], f.msg.timestamp)
                                      ELSE recv[t]]_vars

C8_Witness ==
    \E s \in Sids :
        /\ pc[s] = "done"
        /\ loc[s].ev = "join_room"
        /\ \E e \in out : e.ev = "new_message" /\ e.to = Sids \ {s}
        /\ Len(RoomOf(loc[s].room_id).users) = Cardinality(Sids)

\* C9: disconnect of a member removes its member record, appends
\* "<name> left the room" to the log and delivers it to the members that
\* remain; the room leaves `rooms` exactly when no member remains: with a
\* member left the room stays registered as it is, and with none left
\* len(rooms) goes down by one.
C9_DisconnectLeavesOrDeletes ==
    [][\A s \in Sids :
           LET f == loc[s]
               g == loc'[s]
           IN /\ (pc[s] = "d_scan" /\ DScan(s))
                 => IF \E r \in DictKeys(rooms) : DictHas(RoomOf(r).users, s)
                    THEN /\ pc'[s] = "d_append"
                         /\ DictHas(rooms, g.room_id)
                         /\ DictGet(rooms, g.room_id) = g.room
                         /\ g.username = DictGet(heap[g.room].users, s).name
                         /\ heap'[g.room].users = DictDel(heap[g.room].users, s)
                         /\ ~DictHas(heap'[g.room].users, s)
                    ELSE pc'[s] = "done" /\ heap' = heap /\ rooms' = rooms
              /\ (pc[s] = "d_append" /\ DAppend(s))
                 => /\ g.msg.user = "System"
                    /\ g.msg.text = <<f.username, " left the room">>
                    /\ heap'[f.room].messages = Append(heap[f.room].messages, g.msg)
              /\ (pc[s] = "d_emit" /\ DEmit(s))
                 => Emitted(out', "new_message", OpenMembers(heap[f.room]), f.msg)
              /\ (pc[s] = "d_empty" /\ DEmpty(s))
                 => IF heap[f.room].users = << >>
                    THEN pc'[s] = "d_del" /\ rooms' = rooms
                    ELSE /\ pc'[s] = "done"
                         /\ rooms' = rooms
                         /\ DictGet(rooms, f.room_id) = f.room
                         /\ heap'[f.room] = heap[f.room]
              /\ (pc[s] = "d_del" /\ DDel(s))
                 => /\ pc'[s] = "done"
                    /\ ~DictHas(rooms', f.room_id)
                    /\ Len(rooms') = Len(rooms) - 1]_vars

C9_Witness ==
    \E s \in Sids :
        /\ pc[s] = "done"
        /\ loc[s].ev = "disconnect"
        /\ loc[s].room # NoObj
        /\ Registered(loc[s].room)
        /\ OpenMembers(heap[loc[s].room]) # {}
        /\ recv[CHOOSE t \in Sids : t # s] # << >>

\* C10: a connection has a member record in at most one registered room.
C10_OneRoomPerConnection ==
    \A s \in Sids :
        Cardinality({r \in DictKeys(rooms) : DictHas(RoomOf(r).users, s)}) <= 1

\* Connection s has a member record in some registered room.
MemberSomewhere(s) == \E r \in DictKeys(rooms) : DictHas(RoomOf(r).users, s)

\* C11: a disconnect for a connection that is a member of no room, and a
\* repeated disconnect of a connection, change no room and no registry entry
\* and emit nothing: the handler returns from its scan.
C11_DisconnectIdempotent ==
    [][\A s \in Sids :
           (/\ pc[s] = "d_scan"
            /\ conn[s] = "gone" \/ ~MemberSomewhere(s)
            /\ DScan(s))
           => /\ pc'[s] = "done"
              /\ heap' = heap
              /\ rooms' = rooms
              /\ recv' = recv
              /\ out' = {}]_vars

\* C12: in no registered room is a username the occupant of two slots of
\* mic_slots.
C12_OneSlotPerUser ==
    \A r \in DictKeys(rooms) :
        \A a, b \in DOMAIN RoomOf(r).mic_slots :
            RoomOf(r).mic_slots[a] = RoomOf(r).mic_slots[b] => a = b

\* C13: once the disconnect of a connection has been handled, the connection
\* has no member record in any registered room.
C13_GoneAfterDisconnect ==
    \A s \in Sids :
        (conn[s] = "closed" /\ pc[s] = "idle") => ~MemberSomewhere(s)

\* C14: a leave_mic for a user with an entry in user_slots, whatever the slot
\* string, deletes the mic_slots entry of that slot and the user_slots entry
\* of the user and sends the room's mic_slots as mic_update to the members
\* of the room; for a user without an entry it changes nothing and emits
\* nothing.
C14_LeaveMicReleases ==
    [][\A s \in Sids :
           LET f == loc[s]
               room == heap[f.room]
           IN /\ (pc[s] = "lm_get" /\ LmGet(s))
                 => IF f.username \in DOMAIN room.user_slots
                    THEN /\ pc'[s] = "lm_slot"
                         /\ loc'[s].slot = room.user_slots[f.username]
                    ELSE /\ pc'[s] = "done"
                         /\ heap' = heap
                         /\ out' = {}
              /\ (pc[s] = "lm_slot" /\ LmSlot(s))
                 => /\ pc'[s] = "lm_user"
                    /\ f.slot \in DOMAIN room.mic_slots
                    /\ heap'[f.room].mic_slots = FnDel(room.mic_slots, f.slot)
              /\ (pc[s] = "lm_user" /\ LmUser(s))
                 => /\ pc'[s] = "lm_emit"
                    /\ f.username \in DOMAIN room.user_slots
                    /\ heap'[f.room].user_slots = FnDel(room.user_slots, f.username)
              /\ (pc[s] = "lm_emit" /\ LmEmit(s))
                 => Emitted(out', "mic_update", OpenMembers(room),
                            room.mic_slots)]_vars

\* The handler of s has completed its claim or release (lines 173-174 or
\* 189-190) and has not yet sent its mic_update (line 176 or 191).
AboutToBroadcast(s) == pc[s] \in {"jm_emit", "lm_emit"}

\* C15: every mic_update carries the slot map as it stood when the claim or
\* release that produced it completed: between the completion and the
\* broadcast no other handler changes the room's mic_slots.
C15_MicUpdateCarriesOwnState ==
    [][\A s \in Sids :
           (AboutToBroadcast(s) /\ pc'[s] = pc[s])
           => heap'[loc[s].room].mic_slots = heap[loc[s].room].mic_slots]_vars

\* C16: no handler dies of an uncaught exception.
C16_NoFault == \A s \in Sids : pc[s] # "fault"

\* The sequence a is an initial part of the sequence b.
Prefix(a, b) == Len(a) <= Len(b) /\ SubSeq(b, 1, Len(a)) = a

\* The step is the append of the join_room, send_message or disconnect
\* handler of s (line 138, 156 or 105).
Appends(s) ==
    \/ pc[s] = "j_append" /\ pc'[s] = "j_emit"
    \/ pc[s] = "m_append" /\ pc'[s] = "m_emit"
    \/ pc[s] = "d_append" /\ pc'[s] = "d_emit"

\* The room object the append of s writes to.
AppendTarget(s) ==
    IF pc[s] = "m_append" THEN DictGet(rooms, loc[s].room_id) ELSE loc[s].room

\* C17: the log of a room that stays registered only grows: over every step
\* the old log is an initial part of the new one.  The append of join_room,
\* of a non-empty send_message and of a member's disconnect adds exactly one
\* entry, the handler's message, to the handler's room, and no other step
\* changes a log.
C17_LogOnlyGrows ==
    [][/\ \A o \in {rooms[i].v : i \in 1..Len(rooms)} :
              (heap'[o] # heap[o] /\ Registered(o)')
              => \/ heap'[o].messages = heap[o].messages
                 \/ /\ \E s \in Sids : Appends(s) /\ AppendTarget(s) = o
                    /\ Len(heap'[o].messages) = Len(heap[o].messages) + 1
                    /\ Prefix(heap[o].messages, heap'[o].messages)
       /\ \A s \in Sids :
              Appends(s)
              => /\ pc[s] = "m_append" => loc[s].text # << >>
                 /\ heap'[AppendTarget(s)].messages =
                        Append(heap[AppendTarget(s)].messages, loc'[s].msg)]_vars

C17_Witness ==
    \E r \in DictKeys(rooms) :
        LET log == RoomOf(r).messages
        IN /\ Len(log) = 3
           /\ log[1].text[2] = " joined the room"
           /\ log[2].user # "System"
           /\ log[3].text[2] = " left the room"

\* C18: between handlers, every user_slots entry of a registered room is
\* backed by mic_slots: the slot is a key of mic_slots and maps to the user.
C18_UserSlotsBacked ==
    Settled =>
        \A r \in DictKeys(rooms) :
            \A user \in DOMAIN RoomOf(r).user_slots :
                /\ RoomOf(r).user_slots[user] \in DOMAIN RoomOf(r).mic_slots
                /\ RoomOf(r).mic_slots[RoomOf(r).user_slots[user]] = user

C18_Witness ==
    /\ Settled
    /\ \E r \in DictKeys(rooms) :
           /\ Cardinality(DOMAIN RoomOf(r).mic_slots) = 2
           /\ DOMAIN RoomOf(r).user_slots # {}

\* C19: a leave_mic for a user who occupies a slot of the room never
\* returns without releasing: it goes on to delete a slot of that user, so
\* that leave_mic events free every slot the user occupies.
C19_HolderCanRelease ==
    [][\A s \in Sids :
           (/\ pc[s] = "lm_get"
            /\ \E slot \in DOMAIN heap[loc[s].room].mic_slots :
                   heap[loc[s].room].mic_slots[slot] = loc[s].username
            /\ LmGet(s))
           => pc'[s] = "lm_slot"]_vars

\* The display names of the members of a room.
MemberNames(room) == {room.users[i].v.name : i \in 1..Len(room.users)}

\* C20: every username that occupies a slot of a registered room is the
\* display name of a member of that room.
C20_OccupantsAreMembers ==
    \A r \in DictKeys(rooms) :
        \A slot \in DOMAIN RoomOf(r).mic_slots :
            RoomOf(r).mic_slots[slot] \in MemberNames(RoomOf(r))

=============================================================================
